---- MODULE Spec2Model ----
\* Marker-file state machine of mothball_pipeline.py: the do_step context manager
\* that wraps the three stage commands (unglacier, archive, delete), run as
\* independent processes against one shared S3 bucket of marker files.
EXTENDS Integers, Sequences, FiniteSets, TLC

\* ---------------------------------------------------------------- bounds
NProcs == 3        \* stage-command processes that may be alive at once
MaxCalls == 4      \* stage-command invocations in one behaviour
MaxClock == 2      \* clock ticks that may elapse in one behaviour
MaxRuns == 2       \* queue_* commands invoked in one behaviour
MaxLimit == 3      \* largest --limit given to a queue_* command
MaxLen == 3        \* longest string given to safe_job_name on its own
MaxQueued == 1     \* jobs the batch queue holds at once when jobs are run
TicksPerSec == 2   \* resolution of time(): ticks per second
Epoch == 9         \* time(), in whole seconds, at clock tick 0

Procs == 1..NProcs

\* ---------------------------------------------------------------- data
\* Strings are sequences of pieces: a url or a key is the sequence of its
\* '/'-separated segments, so "s3://b1/k1" is <<"s3:", "", "b1", "k1">>.
\* args.source_url of a stage command.
Url1 == <<"s3:", "", "b1", "k1">>
Url2 == <<"s3:", "", "b2", "k2">>
Urls == {Url1, Url2}

\* parse_s3_url: <<bucket_id, key_id>> of "s3://bucket/key...".
parse_s3_url(u) == <<u[3], SubSeq(u, 4, Len(u))>>

\* The (step_name, next_step_name) pairs the three commands pass to do_step.
StepNames == <<"unglacier", "archive", "delete">>
\* The last command written with its own step as the next one.
NextStepNamesRepeated == <<"archive", "delete", "delete">>
NextStepNames == <<"archive", "delete", "deleted">>
Commands == 1..3
AllSteps == {"unglacier", "archive", "delete", "deleted"}

\* "s3://harvard-cap-attic/steps/%s/%s/%s" % (step, bucket, key)
StepFile(step, url) == <<"steps", step, parse_s3_url(url)[1]>> \o parse_s3_url(url)[2]
Files == {StepFile(s, u) : s \in AllSteps, u \in Urls}

\* in_file and out_file of command c on url.
InFile(c, url) == StepFile(StepNames[c], url)
OutFile(c, url) == StepFile(NextStepNames[c], url)

\* int(time()): the float clock truncated to whole seconds.
IntTime(t) == Epoch + (t \div TicksPerSec)

\* str(n) for n >= 0: the decimal digits, most significant first.
RECURSIVE Str(_)
Str(n) == IF n < 10 THEN <<n>> ELSE Append(Str(n \div 10), n % 10)

\* int(s) succeeds on a non-empty string of decimal digits.
IsInt(s) == Len(s) > 0 /\ \A i \in 1..Len(s) : s[i] \in 0..9
RECURSIVE Int_(_)
Int_(s) == IF Len(s) = 0 THEN 0
           ELSE 10 * Int_(SubSeq(s, 1, Len(s) - 1)) + s[Len(s)]

\* The characters a batch job name may hold, and the ones tried besides.
SafeChars == {"a", "Z", "0", "-", "_"}
Alphabet == SafeChars \cup {"/", ".", " "}

\* s.replace(old, new) for one-character old and new.
Replace(s, old, new) == [i \in 1..Len(s) |-> IF s[i] = old THEN new ELSE s[i]]

\* Line 53: s.replace('/', '_').replace('.', '_').
safe_job_name(s) == Replace(Replace(s, "/", "_"), ".", "_")

\* The bucket: a function from the keys that exist to their contents.
Exists(st, f) == f \in DOMAIN st
PutObject(st, f, body) == [x \in (DOMAIN st) \cup {f} |-> IF x = f THEN body ELSE st[x]]
DeleteObject(st, f) == [x \in (DOMAIN st) \ {f} |-> st[x]]

\* The marker files of one url that exist.
StepsOf(st, url) == {s \in AllSteps : Exists(st, StepFile(s, url))}

\* ---------------------------------------------------------------- state
VARIABLES
    store,      \* the marker files of the bucket: key -> content
    clock,      \* time(), in ticks
    pc,         \* pc[p]: where process p stands in its stage command
    cmd,        \* cmd[p]: the command (1..3) process p runs
    url,        \* url[p]: its args.source_url
    calls,      \* stage commands invoked so far
    t0,         \* the clock when the latest command was invoked
    store0,     \* the bucket when the latest command was invoked
    pre,        \* pre[p]: <<in_file existed, out_file existed>> when p's command was invoked
    ran,        \* ran[p]: the with-body of p's command was entered
    ops,        \* ops[p]: the marker operations p's command has performed
    crashedAt,  \* crashedAt[p]: the pc at which p was killed, or "none"
    written,    \* written[f]: writes of marker f by do_step so far
    removed,    \* removed[f]: delete_file calls that removed an existing f
    done,       \* the <<command, url>> pairs whose do_step has returned
    early,      \* <<command, url>>: body entered before the previous stage returned
    redone,     \* <<command, url>>: body entered after that or a later stage returned
    revived,    \* markers written again after a delete_file removed them
    batch,      \* the batch queue: job -> number of its submissions not yet run
    disp,       \* the queue_* command in progress, or the last one run
    runs,       \* queue_* commands invoked so far
    sin,        \* a string given to safe_job_name
    sout,       \* what safe_job_name made of it
    stuck       \* urls whose command was killed between delete_file and the write

vars == <<store, clock, pc, cmd, url, calls, t0, store0, pre, ran, ops, crashedAt,
          written, removed, done, early, redone, revived,
          batch, disp, runs, sin, sout, stuck>>

\* The state of the queue_* commands and of the batch service.
queueing == <<batch, disp, runs, sin, sout>>

ghosts == <<written, removed, done, early, redone, revived>>

Stopped == {"idle", "returned", "exited", "raised", "crashed"}
Running == {"file_must_exist", "file_must_not_exist", "body", "delete_file", "write"}

Active(p) == pc[p] \in Running

\* The out_file written before the in_file is deleted.
PostProtocolWriteFirst == <<"write", "delete_file">>

\* Lines 109-111: what do_step does after the body returns, in order.
PostProtocol == <<"delete_file", "write">>

\* The pc that follows post-protocol step `at`.
AfterPost(at) ==
    IF at = PostProtocol[1] THEN PostProtocol[2] ELSE "returned"

\* The check of the in_file left out.
file_must_exist_unchecked(st, path) == TRUE

\* file_must_exist: TRUE when the command goes on, FALSE when parser.exit ends it.
file_must_exist(st, path) == Exists(st, path)

\* The check of the out_file left out.
file_must_not_exist_unchecked(st, path) == TRUE

\* file_must_not_exist: TRUE when the command goes on, FALSE when parser.exit ends it.
file_must_not_exist(st, path) == ~Exists(st, path)

\* What the out_file is given: str(int(time())).
Stamp(t) == Str(IntTime(t))

\* The bucket before any command: each url has its first-stage marker only,
\* put there from outside with no content.
FirstStageOnly == [f \in {StepFile(StepNames[1], u) : u \in Urls} |-> <<>>]

\* Any bucket a stage command may be invoked on: every subset of the markers,
\* the first-stage ones empty, the others stamped before the clock started.
AnyBuckets ==
    {[f \in D |-> IF f[2] = StepNames[1] THEN <<>> ELSE Str(Epoch - 1)] : D \in SUBSET Files}

\* No queue_* command has run.
NoRun == [pc |-> "idle", stage |-> 1, limit |-> 1, scan |-> <<>>, i |-> 0,
          before |-> 0, sent |-> <<>>, inflight |-> {}, stuck |-> {}]

\* No stage command has been invoked.
InitCommands ==
    /\ pc = [p \in Procs |-> "idle"]
    /\ cmd = [p \in Procs |-> 1]
    /\ url = [p \in Procs |-> Url1]
    /\ calls = 0
    /\ t0 = 0
    /\ store0 = store
    /\ pre = [p \in Procs |-> <<FALSE, FALSE>>]
    /\ ran = [p \in Procs |-> FALSE]
    /\ ops = [p \in Procs |-> <<>>]
    /\ crashedAt = [p \in Procs |-> "none"]
    /\ written = [f \in Files |-> 0]
    /\ removed = [f \in Files |-> 0]
    /\ done = {}
    /\ early = {}
    /\ redone = {}
    /\ revived = {}
    /\ stuck = {}

InitRest ==
    /\ clock = 0
    /\ InitCommands
    /\ batch = <<>>
    /\ disp = NoRun
    /\ runs = 0
    /\ sin = <<>>
    /\ sout = <<>>

\* A command may find the bucket in any state.
Init == store \in AnyBuckets /\ InitRest

\* The pipeline's own start: first-stage markers only.
InitPipeline == store = FirstStageOnly /\ InitRest

\* ---------------------------------------------------------------- actions
\* main() dispatches to do_unglacier / do_archive / do_delete, which enters
\* do_step: parse_s3_url and the four path computations (lines 96-100).
Enter(p, c, u) ==
    /\ pc[p] \in Stopped
    /\ pc' = [pc EXCEPT ![p] = "file_must_exist"]
    /\ cmd' = [cmd EXCEPT ![p] = c]
    /\ url' = [url EXCEPT ![p] = u]
    /\ t0' = clock
    /\ store0' = store
    /\ pre' = [pre EXCEPT ![p] = <<Exists(store, InFile(c, u)), Exists(store, OutFile(c, u))>>]
    /\ ran' = [ran EXCEPT ![p] = FALSE]
    /\ ops' = [ops EXCEPT ![p] = <<>>]
    /\ crashedAt' = [crashedAt EXCEPT ![p] = "none"]
    /\ UNCHANGED <<store, clock, ghosts>>

\* A stage command invoked by hand, counted against the bound.
Call(p, c, u) ==
    /\ calls < MaxCalls
    /\ calls' = calls + 1
    /\ Enter(p, c, u)
    /\ UNCHANGED <<queueing, stuck>>

\* Line 102: file_must_exist(parser, in_file).
FileMustExist(p) ==
    /\ pc[p] = "file_must_exist"
    /\ pc' = [pc EXCEPT ![p] =
                IF file_must_exist(store, InFile(cmd[p], url[p]))
                THEN "file_must_not_exist" ELSE "exited"]
    /\ UNCHANGED <<queueing, stuck, store, clock, cmd, url, calls, t0, store0, pre, ran, ops, crashedAt, ghosts>>

\* Line 103: file_must_not_exist(parser, out_file); on success the generator
\* yields (line 106) and the with-body starts.
FileMustNotExist(p) ==
    /\ pc[p] = "file_must_not_exist"
    /\ LET go == file_must_not_exist(store, OutFile(cmd[p], url[p]))
           me == <<cmd[p], url[p]>>
       IN /\ pc' = [pc EXCEPT ![p] = IF go THEN "body" ELSE "exited"]
          /\ ran' = [ran EXCEPT ![p] = go]
          /\ early' = IF go /\ cmd[p] > 1 /\ <<cmd[p] - 1, url[p]>> \notin done
                      THEN early \cup {me} ELSE early
          /\ redone' = IF go /\ \E c \in Commands : c >= cmd[p] /\ <<c, url[p]>> \in done
                       THEN redone \cup {me} ELSE redone
    /\ UNCHANGED <<queueing, stuck, store, clock, cmd, url, calls, t0, store0, pre, ops, crashedAt,
                   written, removed, done, revived>>

\* The with-body (lines 117-138, 143, 148) returns: the generator resumes
\* after the yield. The body works on the url's own objects, not on markers.
BodyReturns(p) ==
    /\ pc[p] = "body"
    /\ pc' = [pc EXCEPT ![p] = PostProtocol[1]]
    /\ UNCHANGED <<queueing, stuck, store, clock, cmd, url, calls, t0, store0, pre, ran, ops, crashedAt, ghosts>>

\* A body failure that removes the in_file on its way out.
BodyRaisesAndCleansUp(p) ==
    /\ pc[p] = "body"
    /\ pc' = [pc EXCEPT ![p] = "raised"]
    /\ store' = DeleteObject(store, InFile(cmd[p], url[p]))
    /\ UNCHANGED <<queueing, stuck, clock, cmd, url, calls, t0, store0, pre, ran, ops, crashedAt, ghosts>>

\* The with-body raises: contextmanager throws the exception into the
\* generator at the yield, which has no handler, so lines 108-111 do not run.
BodyRaises(p) ==
    /\ pc[p] = "body"
    /\ pc' = [pc EXCEPT ![p] = "raised"]
    /\ UNCHANGED <<queueing, stuck, store, clock, cmd, url, calls, t0, store0, pre, ran, ops, crashedAt, ghosts>>

\* The step that reaches "returned" completes the command.
Completes(p, next) ==
    IF next = "returned" THEN done \cup {<<cmd[p], url[p]>>} ELSE done

\* The in_file left in place.
DeleteFileSkipped(p) ==
    /\ pc[p] = "delete_file"
    /\ pc' = [pc EXCEPT ![p] = AfterPost("delete_file")]
    /\ done' = Completes(p, AfterPost("delete_file"))
    /\ ops' = [ops EXCEPT ![p] = Append(@, "delete")]
    /\ UNCHANGED <<queueing, stuck, store, clock, cmd, url, calls, t0, store0, pre, ran, crashedAt,
                   written, removed, early, redone, revived>>

\* Line 109: delete_file(in_file); deleting an absent key is no error.
DeleteFile(p) ==
    /\ pc[p] = "delete_file"
    /\ LET f == InFile(cmd[p], url[p])
           next == AfterPost("delete_file")
       IN /\ store' = DeleteObject(store, f)
          /\ removed' = [removed EXCEPT ![f] = IF Exists(store, f) /\ @ < MaxCalls THEN @ + 1 ELSE @]
          /\ pc' = [pc EXCEPT ![p] = next]
          /\ done' = Completes(p, next)
    /\ ops' = [ops EXCEPT ![p] = Append(@, "delete")]
    /\ UNCHANGED <<queueing, stuck, clock, cmd, url, calls, t0, store0, pre, ran, crashedAt,
                   written, early, redone, revived>>

\* Lines 110-111: the out_file is written with str(int(time())).
WriteOutFile(p) ==
    /\ pc[p] = "write"
    /\ LET f == OutFile(cmd[p], url[p])
           next == AfterPost("write")
       IN /\ store' = PutObject(store, f, Stamp(clock))
          /\ written' = [written EXCEPT ![f] = IF @ < MaxCalls THEN @ + 1 ELSE @]
          /\ revived' = IF removed[f] > 0 THEN revived \cup {f} ELSE revived
          /\ pc' = [pc EXCEPT ![p] = next]
          /\ done' = Completes(p, next)
    /\ ops' = [ops EXCEPT ![p] = Append(@, "write")]
    /\ UNCHANGED <<queueing, stuck, clock, cmd, url, calls, t0, store0, pre, ran, crashedAt,
                   removed, early, redone>>

\* The process is killed (by the batch environment, or the host) mid-command.
Crash(p) ==
    /\ Active(p)
    /\ pc' = [pc EXCEPT ![p] = "crashed"]
    /\ crashedAt' = [crashedAt EXCEPT ![p] = pc[p]]
    /\ stuck' = IF ops[p] = <<"delete">> THEN stuck \cup {url[p]} ELSE stuck
    /\ UNCHANGED <<queueing, store, clock, cmd, url, calls, t0, store0, pre, ran, ops, ghosts>>

\* Time passes.
Tick ==
    /\ clock < MaxClock
    /\ clock' = clock + 1
    /\ UNCHANGED <<queueing, stuck, store, pc, cmd, url, calls, t0, store0, pre, ran, ops, crashedAt, ghosts>>

\* ---------------------------------------------------------------- specifications
\* One command at a time, on any bucket: the contract of a single do_step.
CallAlone(c, u) == Call(1, c, u)

Next ==
    \/ \E c \in Commands, u \in Urls : CallAlone(c, u)
    \/ \E p \in Procs : FileMustExist(p)
    \/ \E p \in Procs : FileMustNotExist(p)
    \/ \E p \in Procs : BodyReturns(p)
    \/ \E p \in Procs : BodyRaises(p)
    \/ \E p \in Procs : DeleteFile(p)
    \/ \E p \in Procs : WriteOutFile(p)
    \/ Tick

Spec == Init /\ [][Next]_vars

\* The same, from the pipeline's start.
SpecChain == InitPipeline /\ [][Next]_vars

\* Any number of commands at once on one url, from the pipeline's start,
\* nobody killed.
NextConc ==
    \/ \E p \in Procs, c \in Commands : Call(p, c, Url1)
    \/ \E p \in Procs : FileMustExist(p)
    \/ \E p \in Procs : FileMustNotExist(p)
    \/ \E p \in Procs : BodyReturns(p)
    \/ \E p \in Procs : BodyRaises(p)
    \/ \E p \in Procs : DeleteFile(p)
    \/ \E p \in Procs : WriteOutFile(p)

SpecConc == InitPipeline /\ [][NextConc]_vars

\* Two processes racing within one stage: they run at once only for the same
\* stage of the same url.
Racers == {1, 2}

CallSame(p, c) ==
    /\ \A q \in Racers : Active(q) => cmd[q] = c
    /\ Call(p, c, Url1)

NextRace ==
    \/ \E p \in Racers, c \in Commands : CallSame(p, c)
    \/ \E p \in Procs : FileMustExist(p)
    \/ \E p \in Procs : FileMustNotExist(p)
    \/ \E p \in Procs : BodyReturns(p)
    \/ \E p \in Procs : BodyRaises(p)
    \/ \E p \in Procs : DeleteFile(p)
    \/ \E p \in Procs : WriteOutFile(p)
    \/ Tick

SpecRace == InitPipeline /\ [][NextRace]_vars

\* One process per url, which may be killed at any step and invoked again.
ProcOf(u) == IF u = Url1 THEN 1 ELSE 2

CallOwn(c, u) == Call(ProcOf(u), c, u)

NextCrash ==
    \/ \E c \in Commands, u \in Urls : CallOwn(c, u)
    \/ \E p \in Procs : FileMustExist(p)
    \/ \E p \in Procs : FileMustNotExist(p)
    \/ \E p \in Procs : BodyReturns(p)
    \/ \E p \in Procs : BodyRaises(p)
    \/ \E p \in Procs : DeleteFile(p)
    \/ \E p \in Procs : WriteOutFile(p)
    \/ \E p \in Procs : Crash(p)
    \/ Tick

SpecCrash == InitPipeline /\ [][NextCrash]_vars

\* ---------------------------------------------------------------- properties
In(p) == InFile(cmd[p], url[p])
Out(p) == OutFile(cmd[p], url[p])
Normal == <<TRUE, FALSE>>

\* C1: a command invoked with its in_file present and its out_file absent,
\* whose body succeeds, returns with the in_file gone and the out_file present,
\* holding a decimal integer not below int(time()) taken at the invocation.
C1_SuccessAdvances ==
    \A p \in Procs :
        (pc[p] = "returned" /\ pre[p] = Normal) =>
            /\ ~Exists(store, In(p))
            /\ Exists(store, Out(p))
            /\ IsInt(store[Out(p)])
            /\ Int_(store[Out(p)]) >= IntTime(t0)
            /\ Int_(store[Out(p)]) <= IntTime(clock)

C1_Witness ==
    \E p \in Procs :
        /\ pc[p] = "returned" /\ pre[p] = Normal
        /\ t0 % TicksPerSec # 0
        /\ Exists(store, Out(p)) /\ Len(store[Out(p)]) = 2

\* C2: a command invoked with its in_file absent ends in parser.exit at the
\* first check, whether or not the out_file exists: the body is not entered and
\* the bucket stays as it was.
C2_MissingInboxFails ==
    \A p \in Procs :
        (pc[p] # "idle" /\ ~pre[p][1]) =>
            /\ pc[p] \in {"file_must_exist", "exited"}
            /\ ~ran[p]
            /\ ops[p] = <<>>
            /\ store = store0

C2_Witness ==
    \E p \in Procs :
        /\ pc[p] = "exited" /\ pre[p] = <<FALSE, TRUE>>
        /\ Exists(store, Out(p)) /\ ~Exists(store, In(p))

\* C3: a command invoked with both its in_file and its out_file present ends in
\* parser.exit at the second check: the body is not entered and both markers
\* keep their existence and content.
C3_PresentOutboxFails ==
    \A p \in Procs :
        (pc[p] # "idle" /\ pre[p] = <<TRUE, TRUE>>) =>
            /\ pc[p] \in {"file_must_exist", "file_must_not_exist", "exited"}
            /\ ~ran[p]
            /\ ops[p] = <<>>
            /\ store = store0

C3_Witness ==
    \E p \in Procs :
        /\ pc[p] = "exited" /\ pre[p] = <<TRUE, TRUE>>
        /\ Exists(store, In(p)) /\ Exists(store, Out(p))

\* C4: when the body raises, the command ends with the error and the bucket as
\* it was when invoked: in_file still present, out_file still absent.
C4_BodyFailureLeavesMarkers ==
    \A p \in Procs :
        pc[p] = "raised" =>
            /\ ran[p]
            /\ ops[p] = <<>>
            /\ store = store0
            /\ Exists(store, In(p))
            /\ ~Exists(store, Out(p))

C4_Witness ==
    \E p \in Procs : pc[p] = "raised" /\ pre[p] = Normal /\ Exists(store, In(p))

\* C5: under any interleaving of stage commands, no url has the in_file and
\* the out_file of one stage present together.
C5_NeverBothMarkers ==
    \A u \in Urls, c \in Commands :
        ~(Exists(store, InFile(c, u)) /\ Exists(store, OutFile(c, u)))

\* C6: of two commands racing through the same stage of the same url, at most
\* one enters the body; the other ends in parser.exit with no marker touched.
C6_OneRacerRuns ==
    \A p, q \in Racers :
        (p # q /\ cmd[p] = cmd[q] /\ url[p] = url[q]) =>
            /\ ~(ran[p] /\ ran[q])
            /\ ~(ops[p] # <<>> /\ ops[q] # <<>>)

\* C7: a body starts only after the previous stage of that url has returned,
\* and never after that stage or a later one has returned.
C7_StrictStageOrder == early = {} /\ redone = {}

\* C8: every marker is written at most once and removed at most once, and a
\* removed marker is never present again.
C8_MarkerWrittenOnce ==
    /\ \A f \in Files : written[f] <= 1 /\ removed[f] <= 1
    /\ revived = {}
    /\ \A f \in Files : removed[f] > 0 => ~Exists(store, f)

\* C9: with one command at a time per url and kills at any step, the in_file
\* and out_file of a stage are never both present; a kill between the delete and
\* the write leaves neither, and a kill anywhere else in a command that was
\* invoked with in_file present and out_file absent leaves exactly one.
C9_CrashNeverLeavesBoth ==
    /\ \A u \in Urls, c \in Commands :
        ~(Exists(store, InFile(c, u)) /\ Exists(store, OutFile(c, u)))
    /\ \A p \in Procs :
        pc[p] = "crashed" =>
            IF ops[p] = <<"delete">>
            THEN ~Exists(store, In(p)) /\ ~Exists(store, Out(p))
            ELSE pre[p] = Normal => (Exists(store, In(p)) # Exists(store, Out(p)))

C9_Witness ==
    \E p, q \in Procs :
        /\ pc[p] = "crashed" /\ ops[p] = <<"delete">> /\ StepsOf(store, url[p]) = {}
        /\ pc[q] = "crashed" /\ crashedAt[q] = "body" /\ Exists(store, In(q))

\* The commands that have returned for a url, and their number.
DoneOf(u) == {c \in Commands : <<c, u>> \in done}
Stage(u) == Cardinality(DoneOf(u))
Quiet(u) == \A p \in Procs : ~(Active(p) /\ url[p] = u)

\* C10: from the first-stage marker alone, commands run one after another
\* complete in stage order only; the command of the url's current stage never
\* fails its checks, and each one that returns leaves exactly the next stage's
\* marker, stamped; after the third the url has the terminal marker alone, and
\* any command run on it again ends in parser.exit with the bucket unchanged.
C10_Chain ==
    \A u \in Urls :
        LET k == Stage(u) IN
        /\ DoneOf(u) = 1..k
        /\ \A f \in Files : written[f] <= 1
        /\ Quiet(u) =>
            /\ k = 0 => StepsOf(store, u) = {"unglacier"}
            /\ k = 1 => StepsOf(store, u) = {"archive"}
            /\ k = 2 => StepsOf(store, u) = {"delete"}
            /\ k = 3 => StepsOf(store, u) = {"deleted"}
            /\ \A s \in StepsOf(store, u) : k >= 1 => IsInt(store[StepFile(s, u)])
        /\ \A p \in Procs :
            (url[p] = u /\ pc[p] = "exited") =>
                cmd[p] # k + 1 /\ ops[p] = <<>> /\ store = store0
        /\ \A p \in Procs :
            (url[p] = u /\ k = 3 /\ pc[p] \in Stopped \ {"idle"}) =>
                \/ pc[p] = "returned" /\ cmd[p] = 3
                \/ pc[p] = "exited"

C10_Witness ==
    \E p \in Procs :
        /\ Stage(url[p]) = 3
        /\ pc[p] = "exited" /\ cmd[p] = 1
        /\ StepsOf(store, url[p]) = {"deleted"}

\* ---------------------------------------------------------------- job names
\* The strings of at most MaxLen characters of Alphabet.
Strings == UNION {[1..n -> Alphabet] : n \in 0..MaxLen}

\* queue_job is handed any name.
InitNames ==
    /\ store = FirstStageOnly
    /\ clock = 0
    /\ InitCommands
    /\ batch = <<>>
    /\ disp = NoRun
    /\ runs = 0
    /\ sin \in Strings
    /\ sout = <<>>

\* queue_job applies safe_job_name to the name (line 57) and again to the
\* result (line 61); sout collects the two results.
Sanitize ==
    /\ Len(sout) < 2
    /\ sout' = Append(sout, safe_job_name(IF sout = <<>> THEN sin ELSE sout[Len(sout)]))
    /\ UNCHANGED <<store, clock, pc, cmd, url, calls, t0, store0, pre, ran, ops, crashedAt,
                   ghosts, batch, disp, runs, sin, stuck>>

NextNames == Sanitize

SpecNames == InitNames /\ [][NextNames]_vars

\* C15: the job name has the length of its input, keeps every character of
\* [A-Za-z0-9-_], has '_' in place of every other character, and is left
\* unchanged by a second application.
C15_NameSanitized ==
    Len(sout) >= 1 =>
        /\ Len(sout[1]) = Len(sin)
        /\ \A i \in 1..Len(sin) :
            sout[1][i] = (IF sin[i] \in SafeChars THEN sin[i] ELSE "_")
        /\ Len(sout) = 2 => sout[2] = sout[1]

\* ---------------------------------------------------------------- queue_* commands
\* Line 166: 60*60*24, the seconds a stage-archive marker must have aged.
Quarantine == 60 * 60 * 24

\* A url whose bucket and key repeat a marker prefix.
Url3 == <<"s3:", "", "steps", "unglacier", "k3">>

\* The urls whose markers the queue_* commands may find, in the order S3
\* lists their markers under one prefix (UTF-8 binary order of the keys).
ListedUrls == <<Url1, Url2, Url3>>

\* iter_objects('s3://harvard-cap-attic/steps/<step>'): the keys under the
\* prefix "steps/<step>/", in listing order.
iter_objects(st, step) ==
    SelectSeq([n \in 1..Len(ListedUrls) |-> StepFile(step, ListedUrls[n])],
              LAMBDA f : Exists(st, f))

\* The positions of key at which "steps/<step>/" starts.
Occurrences(key, step) ==
    {j \in 1..(Len(key) - 2) : key[j] = "steps" /\ key[j + 1] = step}

Min(S) == CHOOSE x \in S : \A y \in S : x <= y
Max(S) == CHOOSE x \in S : \A y \in S : x >= y

\* The split taken at the last occurrence of the separator.
SourcePathLastPart(key, step) ==
    SubSeq(key, Max(Occurrences(key, step)) + 2, Len(key))

\* key.split('steps/<step>/', 1)[1]: what follows the first occurrence.
SourcePath(key, step) ==
    SubSeq(key, Min(Occurrences(key, step)) + 2, Len(key))

\* 's3://' + source_path
SourceUrl(key, step) == <<"s3:", "">> \o SourcePath(key, step)

\* The characters of a key: its segments with '/' between them.
RECURSIVE Join(_)
Join(key) == IF Len(key) <= 1 THEN key
             ELSE <<key[1], "/">> \o Join(Tail(key))

\* '<step>-%s' % key, through safe_job_name in queue_job (line 57) and again
\* in the submit_job call (line 61).
JobName(step, key) == safe_job_name(safe_job_name(<<step, "-">> \o Join(key)))

\* The job queue_job submits for a listed key: its jobName and the command
\* of its containerOverrides.
Job(step, key) ==
    [name |-> JobName(step, key),
     command |-> <<"mothball_pipeline", step, SourceUrl(key, step)>>]

\* The names of the jobs submitted and not yet run.
InFlight(b) == {b[n].name : n \in 1..Len(b)}

\* No marker is ever too new.
TooNewNever(timestamp, run_jobs_before) == FALSE

\* Line 170: timestamp > run_jobs_before.
TooNew(timestamp, run_jobs_before) == timestamp > run_jobs_before

\* The loop left one iteration later.
LimitReachedLate(i, limit) == i >= limit

\* The loop left when the jobs submitted reach the limit.
LimitReachedBySent(i, limit) == Len(disp.sent) + 1 >= limit

\* Lines 161, 179, 191: i >= args.limit-1, i the enumerate index.
LimitReached(i, limit) == i >= limit - 1

\* The key the loop of the running queue_* command is at.
Item == disp.scan[disp.i + 1]

\* Lines 167-168: the marker opens and int(f.read()) succeeds.
Readable(st, key) == Exists(st, key) /\ IsInt(st[key])

\* Lines 167-172 skip the item: stage archive only.
Skips(st, d, key) ==
    /\ d.stage = 2
    /\ Readable(st, key)
    /\ TooNew(Int_(st[key]), d.before)

\* The loop body reaches queue_job for the item.
Submits(st, d, key) ==
    d.stage = 2 => (Readable(st, key) /\ ~TooNew(Int_(st[key]), d.before))

\* The pc after an iteration: the loop ends on break or when the listing does.
AfterItem(d, brk) ==
    IF brk \/ d.i + 1 >= Len(d.scan) THEN "done" ELSE "loop"

Executors == <<store, pc, cmd, url, calls, t0, store0, pre, ran, ops, crashedAt, ghosts, stuck>>

\* main() dispatches to queue_unglacier / queue_archive / queue_delete with
\* args.limit = n: line 166 reads the clock and the for statement lists the
\* prefix (one page of results, fetched when the loop starts).
QueueEnter(s, n) ==
    /\ disp.pc # "loop"
    /\ LET scan == iter_objects(store, StepNames[s])
       IN disp' = [pc |-> IF scan = <<>> THEN "done" ELSE "loop",
                   stage |-> s, limit |-> n, scan |-> scan, i |-> 0,
                   before |-> IntTime(clock) - Quarantine,
                   sent |-> <<>>, inflight |-> InFlight(batch), stuck |-> stuck]
    /\ UNCHANGED <<Executors, clock, batch, sin, sout>>

\* A queue_* command invoked by hand, counted against the bound.
QueueStart(s, n) ==
    /\ runs < MaxRuns
    /\ runs' = runs + 1
    /\ QueueEnter(s, n)

\* Lines 167-168 fail: the marker is gone since the listing, or does not
\* hold an integer; the exception ends the command.
QueueReadFails ==
    /\ disp.pc = "loop"
    /\ disp.stage = 2
    /\ ~Readable(store, Item)
    /\ disp' = [disp EXCEPT !.pc = "aborted"]
    /\ UNCHANGED <<Executors, clock, batch, runs, sin, sout>>

\* Lines 170-172: the marker is too new; continue goes to the next item
\* without reaching the limit test.
QueueSkip ==
    /\ disp.pc = "loop"
    /\ Skips(store, disp, Item)
    /\ disp' = [disp EXCEPT !.i = @ + 1, !.pc = AfterItem(disp, FALSE)]
    /\ UNCHANGED <<Executors, clock, batch, runs, sin, sout>>

\* queue_job submits the job of the item (lines 60-69), then the limit test
\* of lines 161, 179, 191.
QueueSubmit ==
    /\ disp.pc = "loop"
    /\ Submits(store, disp, Item)
    /\ LET job == Job(StepNames[disp.stage], Item)
       IN /\ batch' = Append(batch, job)
          /\ disp' = [disp EXCEPT
                        !.sent = Append(@, [key |-> Item, job |-> job, ok |-> TRUE]),
                        !.i = @ + 1,
                        !.pc = AfterItem(disp, LimitReached(disp.i, disp.limit))]
    /\ UNCHANGED <<Executors, clock, runs, sin, sout>>

\* submit_job raises (the ten attempts of the client config are used up):
\* nothing catches it in queue_job, queue_* or main, so the command ends.
QueueSubmitFails ==
    /\ disp.pc = "loop"
    /\ Submits(store, disp, Item)
    /\ disp' = [disp EXCEPT
                  !.sent = Append(@, [key |-> Item, job |-> Job(StepNames[disp.stage], Item),
                                      ok |-> FALSE]),
                  !.pc = "aborted"]
    /\ UNCHANGED <<Executors, clock, batch, runs, sin, sout>>

\* The ages, in seconds, of the stage-archive markers a queue_* command meets.
Ages == {Quarantine - 1, Quarantine, Quarantine + 1}

\* The clock when the queue_* commands run: late enough for every age.
QueueClock == TicksPerSec * 2 * Quarantine

\* What one url may have in the bucket: nothing, a first-stage marker, a
\* stage-archive marker of some age, or a stage-delete marker.
MarkersOf(u) ==
    {<<>>} \cup {<<StepFile(StepNames[1], u), <<>>>>}
           \cup {<<StepFile(StepNames[2], u), Str(IntTime(QueueClock) - a)>> : a \in Ages}
           \cup {<<StepFile(StepNames[3], u), Str(IntTime(QueueClock) - Quarantine - 1)>>}

\* One choice per listed url.
MarkerChoices ==
    {m \in [1..Len(ListedUrls) -> UNION {MarkersOf(ListedUrls[n]) : n \in 1..Len(ListedUrls)}] :
        \A n \in 1..Len(ListedUrls) : m[n] \in MarkersOf(ListedUrls[n])}

\* The bucket that holds the markers chosen.
BucketOf(m) ==
    LET chosen == {m[n] : n \in {k \in 1..Len(m) : m[k] # <<>>}}
    IN [f \in {c[1] : c \in chosen} |-> (CHOOSE c \in chosen : c[1] = f)[2]]

QueueBuckets == {BucketOf(m) : m \in MarkerChoices}

InitQueue ==
    /\ store \in QueueBuckets
    /\ clock = QueueClock
    /\ InitCommands
    /\ batch = <<>>
    /\ disp = NoRun
    /\ runs = 0
    /\ sin = <<>>
    /\ sout = <<>>

\* The queue_* commands on their own, one after another, no job being run.
NextQueue ==
    \/ \E s \in Commands, n \in 0..MaxLimit : QueueStart(s, n)
    \/ QueueSkip
    \/ QueueSubmit
    \/ QueueSubmitFails

SpecQueue == InitQueue /\ [][NextQueue]_vars

\* ---------------------------------------------------------------- queue_* properties
\* The listed keys for which the run has made its submit_job call.
Attempted(d) == {d.sent[k].key : k \in 1..Len(d.sent)}

\* now - timestamp of the marker at position n of the listing, now being the
\* int(time()) of line 166.
Age(st, d, n) == (d.before + Quarantine) - Int_(st[d.scan[n]])

\* The item at position n of the listing passes the age check of its stage.
Eligible(st, d, n) == d.stage = 2 => Age(st, d, n) >= Quarantine

Ended(d) == d.pc \in {"done", "aborted"}

\* C11: a queue_* run calls submit_job for no item whose job name was, when
\* the run started, the name of a job submitted and not yet run.
C11_NoDuplicateSubmit ==
    \A k \in 1..Len(disp.sent) : disp.sent[k].job.name \notin disp.inflight

\* C12: in a queue_archive run no submit_job call is made for a marker less
\* than 24 hours old, and every listed marker the loop has passed that is 24
\* hours old or older (exactly 24 hours included, on every run) has had its
\* submit_job call.
C12_Quarantine ==
    disp.stage = 2 =>
        /\ \A n \in 1..Len(disp.scan) :
              disp.scan[n] \in Attempted(disp) => Age(store, disp, n) >= Quarantine
        /\ \A n \in 1..disp.i :
              Age(store, disp, n) >= Quarantine => disp.scan[n] \in Attempted(disp)

\* A queue_archive run has ended after passing a too-new marker, a marker
\* exactly 24 hours old and an older one, the last two submitted.
C12_Witness ==
    /\ disp.stage = 2 /\ disp.pc = "done" /\ disp.i = 3
    /\ \E a, b, c \in 1..3 :
        /\ Age(store, disp, a) = Quarantine - 1 /\ disp.scan[a] \notin Attempted(disp)
        /\ Age(store, disp, b) = Quarantine /\ disp.scan[b] \in Attempted(disp)
        /\ Age(store, disp, c) = Quarantine + 1 /\ disp.scan[c] \in Attempted(disp)

\* C13: a queue_* run with --limit N >= 1 makes at most N submit_job calls.
C13_AtMostLimit ==
    disp.limit >= 1 => Len(disp.sent) <= disp.limit

\* A run with limit 2 has ended with two jobs submitted and listed items left.
C13_Witness ==
    /\ disp.pc = "done" /\ disp.limit = 2 /\ Len(disp.sent) = 2
    /\ Len(disp.scan) = 3
    /\ \A k \in 1..2 : disp.sent[k].ok

\* C14: a queue_* run with --limit 0 that has ended without error has
\* submitted a job for every eligible item of its listing.
C14_ZeroUnbounded ==
    (disp.pc = "done" /\ disp.limit = 0) =>
        \A n \in 1..Len(disp.scan) :
            Eligible(store, disp, n) => disp.scan[n] \in Attempted(disp)

\* C16: a queue_* run whose limit does not cut its listing short has, when
\* it ends, made the submit_job call of every eligible item of the listing,
\* whether or not an earlier call failed.
C16_FailureIsolated ==
    (Ended(disp) /\ disp.limit >= Len(disp.scan)) =>
        \A n \in 1..Len(disp.scan) :
            Eligible(store, disp, n) => disp.scan[n] \in Attempted(disp)

\* The command of StepNames that a job's command line names.
CommandOf(job) == CHOOSE c \in Commands : StepNames[c] = job.command[2]

\* C17: the command of every job a queue_* run submits names the stage of
\* the run and a url whose in_file, as do_step computes it for that stage,
\* is the marker that was listed.
C17_RoundTrip ==
    \A k \in 1..Len(disp.sent) :
        /\ disp.sent[k].job.command[2] = StepNames[disp.stage]
        /\ InFile(CommandOf(disp.sent[k].job), disp.sent[k].job.command[3]) = disp.sent[k].key

\* A job was submitted for a marker whose key holds the prefix of its stage
\* twice.
C17_Witness ==
    \E k \in 1..Len(disp.sent) :
        /\ disp.sent[k].ok
        /\ disp.sent[k].key = StepFile(StepNames[1], Url3)
        /\ disp.stage = 1

\* The positions of the listing whose items pass the age check.
EligibleAt(st, d) == {n \in 1..Len(d.scan) : Eligible(st, d, n)}

\* The positions a run with limit N submits when no call fails: the eligible
\* ones with no eligible position at or after N before them.
Expected(st, d) ==
    {n \in EligibleAt(st, d) : ~\E m \in EligibleAt(st, d) : m < n /\ m >= d.limit}

\* C19, as claimed: a run with limit N >= 1 that ends without error on a
\* listing with at least N eligible items has submitted exactly N jobs.
C19_ExactLimit ==
    (disp.pc = "done" /\ disp.limit >= 1
        /\ Cardinality(EligibleAt(store, disp)) >= disp.limit)
    => Len(disp.sent) = disp.limit

\* C19, amended: a run with limit N >= 1 that ends without error has
\* submitted the eligible items among the first N-1 listed items and the
\* first eligible item at position N or later, and nothing else; a skipped
\* item among the first N-1 takes one of the N.
C19_LimitByPosition ==
    (disp.pc = "done" /\ disp.limit >= 1)
    => /\ Attempted(disp) = {disp.scan[n] : n \in Expected(store, disp)}
       /\ Len(disp.sent) = Cardinality(Expected(store, disp))

\* A queue_archive run with limit 2 has ended with one job submitted on a
\* listing of a too-new marker followed by two old ones.
C19_Witness ==
    /\ disp.pc = "done" /\ disp.stage = 2 /\ disp.limit = 2
    /\ Len(disp.scan) = 3
    /\ EligibleAt(store, disp) = {2, 3}
    /\ Len(disp.sent) = 1

\* ---------------------------------------------------------------- the pipeline at work
\* The batch service runs the queue_* commands' jobs as stage commands, so
\* queue_* commands and stage commands interleave on the one bucket.

\* The bucket at the start: one object, with its first-stage marker.
OneObject == [f \in {StepFile(StepNames[1], Url1)} |-> <<>>]

\* One object that waits for its first or for its second stage.
FleetBuckets == {b \in AnyBuckets : \E c \in 1..2 : DOMAIN b = {InFile(c, Url1)}}

InitFleet ==
    /\ store \in FleetBuckets
    /\ InitRest

\* The sequence without its n-th element.
Remove(seq, n) == SubSeq(seq, 1, n - 1) \o SubSeq(seq, n + 1, Len(seq))

\* The batch service starts the container of the n-th queued job on worker p:
\* `mothball_pipeline <step> <url>`, through main to do_step.
RunJob(p, n) ==
    /\ n \in 1..Len(batch)
    /\ Enter(p, CommandOf(batch[n]), batch[n].command[3])
    /\ batch' = Remove(batch, n)
    /\ UNCHANGED <<calls, disp, runs, sin, sout, stuck>>

\* Some stage-archive marker is too new for queue_archive.
Quarantined ==
    \E u \in Urls :
        /\ Readable(store, StepFile(StepNames[2], u))
        /\ TooNew(Int_(store[StepFile(StepNames[2], u)]), IntTime(clock) - Quarantine)

\* The quarantine of the markers written so far passes.
Wait ==
    /\ Quarantined
    /\ clock' = clock + TicksPerSec * Quarantine
    /\ UNCHANGED <<queueing, stuck, store, pc, cmd, url, calls, t0, store0, pre, ran, ops,
                   crashedAt, ghosts>>

\* queue_* commands with the default --limit, the batch service running their
\* jobs on two workers, which may be killed at any step.
NextFleet ==
    \/ \E s \in Commands : QueueStart(s, 1)
    \/ QueueReadFails
    \/ QueueSkip
    \/ QueueSubmit
    \/ \E p \in Racers, n \in 1..MaxQueued : RunJob(p, n)
    \/ \E p \in Racers : FileMustExist(p)
    \/ \E p \in Racers : FileMustNotExist(p)
    \/ \E p \in Racers : BodyReturns(p)
    \/ \E p \in Racers : DeleteFile(p)
    \/ \E p \in Racers : WriteOutFile(p)
    \/ \E p \in Racers : Crash(p)
    \/ Wait

SpecFleet == InitFleet /\ [][NextFleet]_vars

\* C18: once a stage command was killed between delete_file and the write of
\* the out_file, its url has no marker of any stage, then and ever after.
C18_StuckForGood ==
    \A u \in stuck : StepsOf(store, u) = {}

\* ---------------------------------------------------------------- progress
\* The queue_* commands run one after another, stage after stage, again and
\* again (from cron, say) with the default --limit; the batch service holds
\* at most MaxQueued jobs and starts the oldest one on the first free of two
\* workers; bodies return, submit_job succeeds and nothing is killed.
NextQueueStage == IF disp.pc = "idle" THEN 1 ELSE (disp.stage % Len(StepNames)) + 1

\* Worker p is at one of the marker lines of do_step (102-103, 109-111),
\* which take moments where a with-body takes hours.
InProtocol(p) == Active(p) /\ pc[p] # "body"

\* The next queue_* command starts, at a moment when the job queue is empty
\* and every worker is stopped or inside a with-body.
QueueAgain ==
    /\ batch = <<>>
    /\ \A p \in Racers : ~InProtocol(p)
    /\ QueueEnter(NextQueueStage, 1)
    /\ UNCHANGED runs

\* submit_job with room in the job queue.
QueueSubmitRoom ==
    /\ Len(batch) < MaxQueued
    /\ QueueSubmit

\* The workers that run no command.
FreeWorkers == {p \in Racers : pc[p] \in Stopped}

\* The batch service starts the container of the oldest queued job.
RunOldest ==
    /\ FreeWorkers # {}
    /\ RunJob(Min(FreeWorkers), 1)

\* A running stage command takes its next step.
WorkerStep(p) ==
    \/ FileMustExist(p)
    \/ FileMustNotExist(p)
    \/ BodyReturns(p)
    \/ DeleteFile(p)
    \/ WriteOutFile(p)

\* A running queue_* command takes its next step.
QueueStep ==
    \/ QueueReadFails
    \/ QueueSkip
    \/ QueueSubmitRoom

InitLive ==
    /\ store = OneObject
    /\ InitRest

NextLive ==
    \/ QueueAgain
    \/ QueueStep
    \/ RunOldest
    \/ \E p \in Racers : WorkerStep(p)
    \/ Wait

\* The queue_* commands are invoked again and again, every queued job is
\* started, every running command takes its next step, and time passes.
FairLive ==
    /\ WF_vars(QueueAgain)
    /\ WF_vars(QueueStep)
    /\ WF_vars(RunOldest)
    /\ \A p \in Racers : WF_vars(WorkerStep(p))
    /\ WF_vars(Wait)

SpecLive == InitLive /\ [][NextLive]_vars /\ FairLive

\* C20: the object that starts with its first-stage marker eventually has
\* the terminal marker and no other, for good.
C20_Progress ==
    <>[](StepsOf(store, Url1) = {NextStepNames[3]})

====
